---- MODULE Spec2Model ----
(***************************************************************************)
(* Model of src/main.py: the handwritten-timesheet parser, the week mapper *)
(* and the PDF renderer's file handling.                                   *)
(*                                                                         *)
(* Text is a sequence of one-character strings, so that the regular        *)
(* expressions of the source are modelled by what they match.  Hours are   *)
(* integers in hundredths of an hour (8.0h = 800).  A time of day is a     *)
(* record with hour and minute; a date is a record with y, m, d.           *)
(***************************************************************************)
EXTENDS Integers, Sequences, FiniteSets, TLC

VARIABLES
    pc,            \* position of the run
    text,          \* the OCR text, as the sequence text.splitlines() yields
    month, year,   \* --month / --year
    lineno,        \* index of the next line of the for loop (1-based)
    entries,       \* parse_handwritten_lines: entries
    stdout,        \* [WARN] lines printed so far
    week_start, week_end, mapping, total_hours,   \* locals of main
    overlay,       \* does out_pdf + ".overlay.pdf" exist on disk
    out_file,      \* has out_pdf been written
    remove_failed, \* did os.remove(overlay_path) raise OSError
    footer,        \* total drawn at LAYOUT["footer"]["total_hours"]
    summary,       \* "Total hours" of the final print
    args,          \* arguments of the function called on its own
    result         \* its return value

vars == <<pc, text, month, year, lineno, entries, stdout, week_start, week_end,
          mapping, total_hours, overlay, out_file, remove_failed, footer,
          summary, args, result>>

-----------------------------------------------------------------------------
(* Characters *)

Digits == {"0", "1", "2", "3", "4", "5", "6", "7", "8", "9"}

DigitVal(c) ==
    CASE c = "0" -> 0 [] c = "1" -> 1 [] c = "2" -> 2 [] c = "3" -> 3
      [] c = "4" -> 4 [] c = "5" -> 5 [] c = "6" -> 6 [] c = "7" -> 7
      [] c = "8" -> 8 [] c = "9" -> 9

\* the letters that occur in the modelled inputs
LowerLetters == {"a", "e", "i", "l", "m", "o", "p", "r", "s", "t", "u"}

UpperLetters == {"A", "M", "O", "P", "T"}

\* re.IGNORECASE / str.lower()
Lower(c) ==
    CASE c = "A" -> "a" [] c = "M" -> "m" [] c = "O" -> "o"
      [] c = "P" -> "p" [] c = "T" -> "t" [] OTHER -> c

\* \s
IsSpace(c) == c \in {" ", "\t"}

\* \w
IsWordChar(c) == c \in Digits \cup LowerLetters \cup UpperLetters \cup {"_"}

\* [\/-]
IsDateSep(c) == c \in {"/", "-"}

\* [-–—] ; the en dash and the em dash are written "endash" and "emdash"
IsDash(c) == c \in {"-", "endash", "emdash"}

IsDigitAt(s, k) == k >= 1 /\ k <= Len(s) /\ s[k] \in Digits

CharAt(s, k) == IF k >= 1 /\ k <= Len(s) THEN s[k] ELSE "EOL"

\* int() of a run of digits s[a..b]
RECURSIVE IntOf(_, _, _)
IntOf(s, a, b) == IF b < a THEN 0 ELSE IntOf(s, a, b - 1) * 10 + DigitVal(s[b])

\* first index >= k that does not hold a whitespace character
RECURSIVE SkipSpaces(_, _)
SkipSpaces(s, k) == IF k <= Len(s) /\ IsSpace(s[k]) THEN SkipSpaces(s, k + 1) ELSE k

\* str.strip()
RECURSIVE RStrip(_)
RStrip(s) == IF Len(s) > 0 /\ IsSpace(s[Len(s)]) THEN RStrip(SubSeq(s, 1, Len(s) - 1)) ELSE s

Strip(s) == LET a == SkipSpaces(s, 1) IN RStrip(SubSeq(s, a, Len(s)))

-----------------------------------------------------------------------------
(* Times of day *)

Time(h, mi) == [kind |-> "time", hour |-> h, minute |-> mi]

None == [kind |-> "None", hour |-> 0, minute |-> 0]

ValueError == [kind |-> "ValueError", hour |-> 0, minute |-> 0]

IsTime(t) == t.kind = "time"

MinutesOfDay(t) == t.hour * 60 + t.minute

\* index of the leftmost digit of s
FirstDigit(s) ==
    CHOOSE k \in 1..Len(s) : s[k] \in Digits /\ \A j \in 1..(k - 1) : s[j] \notin Digits

\* (?P<ampm>a\.?m\.?|p\.?m\.?)? at index r, as group("ampm").lower().replace(".", "")
\* gives it; "" when the group does not take part
AmpmAt(s, r) ==
    IF /\ Lower(CharAt(s, r)) \in {"a", "p"}
       /\ Lower(CharAt(s, IF CharAt(s, r + 1) = "." THEN r + 2 ELSE r + 1)) = "m"
    THEN (IF Lower(CharAt(s, r)) = "a" THEN "am" ELSE "pm")
    ELSE ""

\* the groups of a TIME_RE match whose hour is s[p..he]; hasMin tells
\* whether (?::(?P<min>\d{2}))? took part
TimeGroups(s, p, he, hasMin) ==
    [matched |-> TRUE,
     h    |-> IntOf(s, p, he),
     min  |-> IF hasMin THEN IntOf(s, he + 2, he + 3) ELSE 0,
     ampm |-> AmpmAt(s, SkipSpaces(s, IF hasMin THEN he + 4 ELSE he + 1))]

\* (?P<h>\d{1,2}) is greedy: two digits when there are two
TimeHour(s, p, he) ==
    TimeGroups(s, p, he,
               CharAt(s, he + 1) = ":" /\ IsDigitAt(s, he + 2) /\ IsDigitAt(s, he + 3))

TimeAt(s, p) == TimeHour(s, p, IF IsDigitAt(s, p + 1) THEN p + 1 ELSE p)

\* TIME_RE.search(text): the leftmost digit starts the match; every later
\* group is optional and greedy, so no backtracking changes the groups.
TIME_RE(s) ==
    IF \A k \in 1..Len(s) : s[k] \notin Digits
    THEN [matched |-> FALSE, h |-> 0, min |-> 0, ampm |-> ""]
    ELSE TimeAt(s, FirstDigit(s))

\* dt.time(hour, minute): ValueError unless 0 <= hour <= 23 and 0 <= minute <= 59
dt_time(h, mi) == IF h \in 0..23 /\ mi \in 0..59 THEN Time(h, mi) ELSE ValueError

\* line 111-112: if ampm in ("pm", "p") and h != 12: h += 12
AfterPm(h, ampm) == IF ampm \in {"pm", "p"} /\ h # 12 THEN h + 12 ELSE h

\* line 113-114: if ampm in ("am", "a") and h == 12: h = 0
AfterAm(h, ampm) == IF ampm \in {"am", "a"} /\ h = 12 THEN 0 ELSE h

\* lines 107-116 for the match m
TimeOfMatch(m, ampm) == dt_time(AfterAm(AfterPm(m.h, ampm), ampm) % 24, m.min)

ParseMatch(m, default_ampm) ==
    IF ~m.matched THEN None
    ELSE TimeOfMatch(m, IF m.ampm # "" THEN m.ampm ELSE default_ampm)

parse_time(txt, default_ampm) == ParseMatch(TIME_RE(txt), default_ampm)

\* (dt.datetime.combine(today, end) + dt.timedelta(hours=12)).time()
Plus12h(t) == LET n == (MinutesOfDay(t) + 720) % 1440 IN Time(n \div 60, n % 60)

\* the comparison of line 141 written with < : equal times are not bumped
TupleLess(a, b) == a.hour < b.hour \/ (a.hour = b.hour /\ a.minute < b.minute)

\* (end.hour, end.minute) <= (start.hour, start.minute), as tuples
TupleLeq(a, b) == a.hour < b.hour \/ (a.hour = b.hour /\ a.minute <= b.minute)

\* lines 135-152, with start as line 133 leaves it
InferResolved(start, end, assume_start_9am) ==
    IF start # None /\ end # None
    THEN [raised |-> FALSE, start |-> start,
          end |-> IF TupleLeq(end, start) THEN Plus12h(end) ELSE end]
    ELSE [raised |-> FALSE,
          start |-> IF start = None /\ assume_start_9am THEN Time(9, 0) ELSE start,
          end   |-> IF end = None THEN Time(17, 0) ELSE end]

\* lines 132-152 for the two results of parse_time
InferParsed(start, end, assume_start_9am) ==
    IF start = ValueError \/ end = ValueError
    THEN [raised |-> TRUE, start |-> None, end |-> None]
    ELSE InferResolved(IF assume_start_9am /\ start = None THEN Time(9, 0) ELSE start,
                       end, assume_start_9am)

\* infer_times(start_txt, end_txt, assume_start_9am); a ValueError of
\* parse_time propagates: the pair is not returned
infer_times(start_txt, end_txt, assume_start_9am) ==
    InferParsed(parse_time(start_txt, ""), parse_time(end_txt, ""), assume_start_9am)

\* hours_between, in hundredths: round(minutes / 60, 2).  minutes * 100 / 60
\* has fractional part 0, 1/3 or 2/3, so rounding never meets a tie.
hours_between(start, end) ==
    IF MinutesOfDay(end) <= MinutesOfDay(start)
    THEN (10 * (MinutesOfDay(end) + 1440 - MinutesOfDay(start)) + 3) \div 6
    ELSE (10 * (MinutesOfDay(end) - MinutesOfDay(start)) + 3) \div 6

-----------------------------------------------------------------------------
(* Calendar dates: datetime.date *)

MINYEAR == 1

MAXYEAR == 9999

Date(y, m, d) == [kind |-> "date", y |-> y, m |-> m, d |-> d]

NoDate == [kind |-> "None", y |-> 0, m |-> 0, d |-> 0]

IsLeap(y) == y % 4 = 0 /\ (y % 100 # 0 \/ y % 400 = 0)

DaysInMonth(y, m) ==
    IF m = 2 THEN (IF IsLeap(y) THEN 29 ELSE 28)
    ELSE IF m \in {4, 6, 9, 11} THEN 30 ELSE 31

RECURSIVE DaysBeforeMonth(_, _)
DaysBeforeMonth(y, m) ==
    IF m <= 1 THEN 0 ELSE DaysBeforeMonth(y, m - 1) + DaysInMonth(y, m - 1)

DaysBeforeYear(y) ==
    LET p == y - 1 IN p * 365 + (p \div 4) - (p \div 100) + (p \div 400)

\* dt.date(y, m, d) raises ValueError for an impossible date
ValidDate(y, m, d) ==
    /\ y \in MINYEAR..MAXYEAR
    /\ m \in 1..12
    /\ d >= 1 /\ d <= DaysInMonth(y, m)

\* date.toordinal(): 0001-01-01 is day 1
ToOrdinal(dte) == DaysBeforeYear(dte.y) + DaysBeforeMonth(dte.y, dte.m) + dte.d

\* date.max.toordinal()
MaxOrdinal == DaysBeforeYear(MAXYEAR + 1)

\* the year that holds day n
YearOfOrdinal(n) ==
    CHOOSE yy \in ((n \div 366) + 1)..((n \div 365) + 1) :
        DaysBeforeYear(yy) < n /\ n <= DaysBeforeYear(yy + 1)

\* the month of year y that holds its day r
MonthOfDay(y, r) ==
    CHOOSE mm \in 1..12 :
        DaysBeforeMonth(y, mm) < r /\ r <= DaysBeforeMonth(y, mm) + DaysInMonth(y, mm)

DateOfYearDay(y, r, m) == Date(y, m, r - DaysBeforeMonth(y, m))

DateInYear(y, r) == DateOfYearDay(y, r, MonthOfDay(y, r))

DateOfYear(n, y) == DateInYear(y, n - DaysBeforeYear(y))

\* date.fromordinal(n), 1 <= n <= MaxOrdinal
FromOrdinal(n) == DateOfYear(n, YearOfOrdinal(n))

\* date.weekday(): Monday = 0 .. Sunday = 6
Weekday(dte) == (ToOrdinal(dte) + 6) % 7

\* date + dt.timedelta(days=n): OverflowError outside date.min..date.max
OverflowError == [kind |-> "OverflowError", y |-> 0, m |-> 0, d |-> 0]

OrdinalToDate(o) == IF o >= 1 /\ o <= MaxOrdinal THEN FromOrdinal(o) ELSE OverflowError

DatePlusDays(dte, n) == OrdinalToDate(ToOrdinal(dte) + n)

\* (a - b).days
DaysBetween(a, b) == ToOrdinal(a) - ToOrdinal(b)

-----------------------------------------------------------------------------
(* Week mapping *)

WEEKDAYS == <<"Mon", "Tue", "Wed", "Thur", "Fri", "Sat", "Sun">>

DayEntry(dte, start, end, hours, raw) ==
    [kind |-> "DayEntry", date |-> dte, start |-> start, end |-> end,
     hours |-> hours, raw |-> raw]

\* the None of an Optional[DayEntry]
NoneEntry ==
    [kind |-> "None", date |-> NoDate, start |-> None, end |-> None,
     hours |-> 0, raw |-> <<>>]

\* min(dates)
MinDate(dates) ==
    dates[CHOOSE k \in 1..Len(dates) :
              \A j \in 1..Len(dates) : ToOrdinal(dates[k]) <= ToOrdinal(dates[j])]

\* line 244: return start, start + dt.timedelta(days=6)
WeekFrom(start, end) ==
    IF start = OverflowError \/ end = OverflowError
    THEN [raised |-> TRUE, start |-> NoDate, end |-> NoDate]
    ELSE [raised |-> FALSE, start |-> start, end |-> end]

WeekOf(start) == WeekFrom(start, DatePlusDays(start, 6))

\* line 243 with isoweekday() (Monday = 1) in place of weekday()
MondayIso(min_d) == DatePlusDays(min_d, 0 - (Weekday(min_d) + 1))

week_bounds_isoweekday(dates, today) ==
    WeekOf(MondayIso(IF Len(dates) = 0 THEN today ELSE MinDate(dates)))

\* line 243: min_d - dt.timedelta(days=min_d.weekday())
Monday(min_d) == DatePlusDays(min_d, 0 - Weekday(min_d))

\* week_bounds_from_dates(dates); today is dt.date.today(), read only when
\* dates is empty.  The trailing start + 6 days can leave date.max.
week_bounds_from_dates(dates, today) ==
    WeekOf(Monday(IF Len(dates) = 0 THEN today ELSE MinDate(dates)))

\* line 251 with the window 0 <= idx < 6: the Sunday slot is never filled
RECURSIVE MapLoopNoSunday(_, _, _)
MapLoopNoSunday(es, n, ws) ==
    IF n = 0 THEN [w \in {WEEKDAYS[k] : k \in 1..7} |-> NoneEntry]
    ELSE LET prev == MapLoopNoSunday(es, n - 1, ws)
             idx  == DaysBetween(es[n].date, ws)
         IN IF 0 <= idx /\ idx < 6
            THEN [prev EXCEPT ![WEEKDAYS[idx + 1]] = es[n]]
            ELSE prev

\* map_entries_to_week(entries, week_start): the for loop over the first n entries
RECURSIVE MapLoop(_, _, _)
MapLoop(es, n, ws) ==
    IF n = 0 THEN [w \in {WEEKDAYS[k] : k \in 1..7} |-> NoneEntry]
    ELSE LET prev == MapLoop(es, n - 1, ws)
             idx  == DaysBetween(es[n].date, ws)
         IN IF 0 <= idx /\ idx <= 6
            THEN [prev EXCEPT ![WEEKDAYS[idx + 1]] = es[n]]
            ELSE prev

map_entries_to_week(es, ws) == MapLoop(es, Len(es), ws)

-----------------------------------------------------------------------------
(* Line parser *)

\* DATE_RE at position p with a month of mlen digits: \d{1,2}[\/-]\d
DateAt(s, p, mlen) ==
    /\ \A k \in p..(p + mlen - 1) : IsDigitAt(s, k)
    /\ IsDateSep(CharAt(s, p + mlen))
    /\ IsDigitAt(s, p + mlen + 1)

\* index of the leftmost DATE_RE match of s
FirstDate(s) ==
    CHOOSE k \in 1..Len(s) :
        /\ DateAt(s, k, 2) \/ DateAt(s, k, 1)
        /\ \A j \in 1..(k - 1) : ~(DateAt(s, j, 2) \/ DateAt(s, j, 1))

\* end of (?P<y>\d{2,4}) that starts at index a: greedy, up to four digits
YearEnd(s, a) ==
    IF ~IsDigitAt(s, a + 2) THEN a + 1
    ELSE IF ~IsDigitAt(s, a + 3) THEN a + 2 ELSE a + 3

\* the groups of a DATE_RE match with month s[p..ds-2] and day s[ds..de];
\* hasY tells whether (?:[\/-](?P<y>\d{2,4}))? took part
DateGroups(s, p, ds, de, hasY) ==
    [matched |-> TRUE,
     m |-> IntOf(s, p, ds - 2),
     d |-> IntOf(s, ds, de),
     hasY |-> hasY,
     y |-> IF hasY THEN IntOf(s, de + 2, YearEnd(s, de + 2)) ELSE 0]

DateDay(s, p, ds, de) ==
    DateGroups(s, p, ds, de,
               IsDateSep(CharAt(s, de + 1)) /\ IsDigitAt(s, de + 2) /\ IsDigitAt(s, de + 3))

\* (?P<d>\d{1,2}) is greedy: two digits when there are two
DateMonth(s, p, ds) == DateDay(s, p, ds, IF IsDigitAt(s, ds + 1) THEN ds + 1 ELSE ds)

\* (?P<m>\d{1,2}) is greedy and backtracks to one digit
DateFrom(s, p) == DateMonth(s, p, IF DateAt(s, p, 2) THEN p + 3 ELSE p + 2)

\* DATE_RE.search(line): leftmost match; the month is greedy and backtracks
\* to one digit, the day and the optional year group are greedy.
DATE_RE(s) ==
    IF \A p \in 1..Len(s) : ~(DateAt(s, p, 2) \/ DateAt(s, p, 1))
    THEN [matched |-> FALSE, m |-> 0, d |-> 0, hasY |-> FALSE, y |-> 0]
    ELSE DateFrom(s, FirstDate(s))

\* re.match(r"^(?P<d>\d{1,2})\b", line)
LeadingDay(s) ==
    IF IsDigitAt(s, 1) /\ IsDigitAt(s, 2) /\ ~IsWordChar(CharAt(s, 3))
    THEN [matched |-> TRUE, d |-> IntOf(s, 1, 2)]
    ELSE IF IsDigitAt(s, 1) /\ ~IsWordChar(CharAt(s, 2))
    THEN [matched |-> TRUE, d |-> IntOf(s, 1, 1)]
    ELSE [matched |-> FALSE, d |-> 0]

\* re.split(r"[-–—]|to", line, flags=re.I), scanning from index k with the
\* part cur under construction
RECURSIVE SplitFrom(_, _, _)
SplitFrom(s, k, cur) ==
    IF k > Len(s) THEN <<cur>>
    ELSE IF IsDash(s[k]) THEN <<cur>> \o SplitFrom(s, k + 1, <<>>)
    ELSE IF Lower(s[k]) = "t" /\ Lower(CharAt(s, k + 1)) = "o"
         THEN <<cur>> \o SplitFrom(s, k + 2, <<>>)
    ELSE SplitFrom(s, k + 1, Append(cur, s[k]))

Split(s) == SplitFrom(s, 1, <<>>)

\* start of the maximal run of digits that ends at index e
RECURSIVE RunStart(_, _)
RunStart(s, e) == IF IsDigitAt(s, e - 1) THEN RunStart(s, e - 1) ELSE e

\* float() of the digits t[a..n] after the decimal point, in hundredths
Hundredths(t, a, n) == IF n = a THEN 10 * DigitVal(t[a]) ELSE IntOf(t, a, a + 1)

\* group 1 of the match that ends at n with its last run of digits starting at a2
TrailingFrom(t, n, a2) ==
    IF CharAt(t, a2 - 1) = "." /\ IsDigitAt(t, a2 - 2)
    THEN [matched |-> TRUE,
          value |-> 100 * IntOf(t, RunStart(t, a2 - 2), a2 - 2) + Hundredths(t, a2, n)]
    ELSE [matched |-> TRUE, value |-> 100 * IntOf(t, a2, n)]

TrailingIn(t) ==
    IF ~IsDigitAt(t, Len(t)) THEN [matched |-> FALSE, value |-> 0]
    ELSE TrailingFrom(t, Len(t), RunStart(t, Len(t)))

\* re.search(r"(\d+(?:\.\d+)?)\s*$", line) and float() of group 1, in
\* hundredths (the modelled lines carry at most two decimals)
TrailingHours(s) == TrailingIn(RStrip(s))

\* pairs <<handwritten, computed>> exactly 0.25 apart whose difference as
\* IEEE doubles is above 0.25
FloatAbove ==
    {<<55, 30>>, <<67, 42>>, <<68, 43>>, <<107, 82>>, <<108, 83>>, <<110, 85>>,
     <<112, 87>>, <<218, 193>>, <<220, 195>>, <<222, 197>>, <<403, 378>>,
     <<407, 382>>, <<415, 390>>, <<423, 398>>, <<805, 780>>, <<813, 788>>,
     <<822, 797>>, <<1603, 1578>>, <<1610, 1585>>, <<1612, 1587>>, <<1617, 1592>>}

Abs(x) == IF x < 0 THEN 0 - x ELSE x

\* line 215 with a tolerance of 2.5 hours
DisagreesLoose(handwritten, computed) == Abs(handwritten - computed) > 250

\* abs(handwritten_hours - computed_hours) > 0.25
Disagrees(handwritten, computed) ==
    \/ Abs(handwritten - computed) > 25
    \/ <<handwritten, computed>> \in FloatAbove
    \/ <<computed, handwritten>> \in FloatAbove

\* the [WARN] line printed for a disagreement
Warn(m, d, y, handwritten, computed, raw) ==
    [m |-> m, d |-> d, y |-> y, handwritten |-> handwritten,
     computed |-> computed, raw |-> raw]

Skipped(warnings) == [outcome |-> "skip", entry |-> NoneEntry, warnings |-> warnings]

Raised == [outcome |-> "raise", entry |-> NoneEntry, warnings |-> <<>>]

\* lines 222-230: the date is built after the warning was printed
ParseDate(raw, m, d, y, t, final_hours, warnings) ==
    IF ~ValidDate(y, m, d) THEN Skipped(warnings)
    ELSE [outcome |-> "entry",
          entry |-> DayEntry(Date(y, m, d), t.start, t.end, final_hours, raw),
          warnings |-> warnings]

\* lines 212-220
ParseWarned(raw, m, d, y, t, computed_hours, hours_match, warned) ==
    ParseDate(raw, m, d, y, t,
              IF hours_match.matched /\ ~warned THEN hours_match.value ELSE computed_hours,
              IF warned THEN <<Warn(m, d, y, hours_match.value, computed_hours, raw)>>
              ELSE <<>>)

ParseHours(raw, m, d, y, t, computed_hours, hours_match) ==
    ParseWarned(raw, m, d, y, t, computed_hours, hours_match,
                hours_match.matched /\ Disagrees(hours_match.value, computed_hours))

\* lines 207-211; t is what infer_times returned or that it raised
ParseTimes(raw, line, m, d, y, t) ==
    IF t.raised THEN Raised
    ELSE ParseHours(raw, m, d, y, t, hours_between(t.start, t.end), TrailingHours(line))

\* lines 202-207
ParseParts(raw, line, m, d, y, parts) ==
    IF Len(parts) < 2 THEN Skipped(<<>>)
    ELSE ParseTimes(raw, line, m, d, y,
                    infer_times(parts[2],
                                IF Len(parts) >= 3 THEN parts[3] ELSE <<"5", "p", "m">>,
                                TRUE))

\* lines 187-201; dm is DATE_RE.search(line), m2 the leading day number
ParseDated(raw, line, dm, m2, mon, yr) ==
    IF ~dm.matched /\ ~m2.matched THEN Skipped(<<>>)
    ELSE ParseParts(raw, line,
                    IF dm.matched THEN dm.m ELSE mon,
                    IF dm.matched THEN dm.d ELSE m2.d,
                    \* int(group("y") or year)
                    IF dm.matched /\ dm.hasY THEN dm.y ELSE yr,
                    Split(line))

ParseStripped(raw, line, mon, yr) ==
    IF Len(line) = 0 THEN Skipped(<<>>)
    ELSE ParseDated(raw, line, DATE_RE(line), LeadingDay(line), mon, yr)

\* one iteration of the for loop of parse_handwritten_lines on the line raw:
\* what it does to entries and to stdout, or the exception it raises
ParseLine(raw, mon, yr) == ParseStripped(raw, Strip(raw), mon, yr)

-----------------------------------------------------------------------------
(* Inputs of a run: the lines the OCR can return *)

\* '8/4 - 9 to 3pm - 6': explicit month, handwritten total agrees
Line01 ==
    <<"8", "/", "4", " ", "-", " ", "9", " ", "t", "o", " ", "3", "p", "m",
      " ", "-", " ", "6">>

\* '8/5 - 9 to 5 - 10': handwritten 10 against computed 8.0
Line02 ==
    <<"8", "/", "5", " ", "-", " ", "9", " ", "t", "o", " ", "5", " ", "-",
      " ", "1", "0">>

\* '4 - 9 to 3pm - 6': bare day number, range written with 'to'
Line03 ==
    <<"4", " ", "-", " ", "9", " ", "t", "o", " ", "3", "p", "m", " ", "-",
      " ", "6">>

\* '4 - 9-3pm - 6': bare day number, range written with a hyphen
Line04 ==
    <<"4", " ", "-", " ", "9", "-", "3", "p", "m", " ", "-", " ", "6">>

\* '2/30 - 9 to 5 - 10': impossible date, total disagrees
Line05 ==
    <<"2", "/", "3", "0", " ", "-", " ", "9", " ", "t", "o", " ", "5", " ",
      "-", " ", "1", "0">>

\* '2/30 - 9 to 5 - 8': impossible date, total agrees
Line06 ==
    <<"2", "/", "3", "0", " ", "-", " ", "9", " ", "t", "o", " ", "5", " ",
      "-", " ", "8">>

\* 'lorem ipsum': no date
Line07 ==
    <<"l", "o", "r", "e", "m", " ", "i", "p", "s", "u", "m">>

\* '  ': blank
Line08 ==
    <<" ", " ">>

\* '8/4 - 9:75 to 5': minute out of range
Line09 ==
    <<"8", "/", "4", " ", "-", " ", "9", ":", "7", "5", " ", "t", "o", " ",
      "5">>

\* '8/4': no separator
Line10 ==
    <<"8", "/", "4">>

\* '8/11 - 9 to 5 - 8': Monday of the following week
Line11 ==
    <<"8", "/", "1", "1", " ", "-", " ", "9", " ", "t", "o", " ", "5", " ",
      "-", " ", "8">>

\* '8/4 - 10 to 2pm - 4': a second line for 8/4
Line12 ==
    <<"8", "/", "4", " ", "-", " ", "1", "0", " ", "t", "o", " ", "2", "p",
      "m", " ", "-", " ", "4">>

\* '8/10 - 9 to 5pm - 8.25': Sunday, total 0.25 above the computed 8.0
Line13 ==
    <<"8", "/", "1", "0", " ", "-", " ", "9", " ", "t", "o", " ", "5", "p",
      "m", " ", "-", " ", "8", ".", "2", "5">>

\* '7/28 - 9 to 5 - 8': Monday of the preceding week
Line14 ==
    <<"7", "/", "2", "8", " ", "-", " ", "9", " ", "t", "o", " ", "5", " ",
      "-", " ", "8">>

\* '8/6 - 9 to 4:48pm - 8.05': total 0.25 above the computed 7.8
Line15 ==
    <<"8", "/", "6", " ", "-", " ", "9", " ", "t", "o", " ", "4", ":", "4",
      "8", "p", "m", " ", "-", " ", "8", ".", "0", "5">>

\* '8/7 - 9 TO 5PM': upper case, no total
Line16 ==
    <<"8", "/", "7", " ", "-", " ", "9", " ", "T", "O", " ", "5", "P", "M">>

\* '8/8 <en dash> 9 to 5': en dash, the end time is the trailing number
Line17 ==
    <<"8", "/", "8", " ", "endash", " ", "9", " ", "t", "o", " ", "5">>

\* ' 8/9 - to 5pm - 8 ': start omitted, surrounding blanks
Line18 ==
    <<" ", "8", "/", "9", " ", "-", " ", "t", "o", " ", "5", "p", "m", " ",
      "-", " ", "8", " ">>

\* '12/28/9999 - 9 to 5 - 8': last week of year 9999
Line19 ==
    <<"1", "2", "/", "2", "8", "/", "9", "9", "9", "9", " ", "-", " ", "9",
      " ", "t", "o", " ", "5", " ", "-", " ", "8">>

\* '5 - 9 to 5pm': bare day number, no total
Line20 ==
    <<"5", " ", "-", " ", "9", " ", "t", "o", " ", "5", "p", "m">>

\* '8/6 - 9 to': end omitted
Line21 ==
    <<"8", "/", "6", " ", "-", " ", "9", " ", "t", "o">>

Catalogue ==
    {Line01, Line02, Line03, Line04, Line05, Line06, Line07, Line08, Line09,
      Line10, Line11, Line12, Line13, Line14, Line15, Line16, Line17, Line18,
      Line19, Line20, Line21}

\* most lines in a text
MaxLines == 2

RECURSIVE SeqsUpTo(_, _)
SeqsUpTo(S, n) ==
    IF n = 0 THEN {<<>>}
    ELSE LET shorter == SeqsUpTo(S, n - 1)
         IN shorter \cup {Append(q, x) : q \in {r \in shorter : Len(r) = n - 1}, x \in S}

Texts == SeqsUpTo(Catalogue, MaxLines)

\* rows of an --ocr-json file
JsonRows ==
    {DayEntry(Date(2025, 8, 4), Time(9, 0), Time(15, 0), 600, <<>>),
     DayEntry(Date(2025, 8, 4), Time(9, 0), Time(17, 0), 800, <<>>),
     DayEntry(Date(2025, 8, 12), Time(9, 0), Time(17, 0), 800, <<>>)}

-----------------------------------------------------------------------------
(* The run: main *)

NoMapping == [w \in {WEEKDAYS[k] : k \in 1..7} |-> NoneEntry]

RECURSIVE SumHours(_, _)
SumHours(es, n) == IF n = 0 THEN 0 ELSE SumHours(es, n - 1) + es[n].hours

HarnessIdle == args = <<>> /\ result = <<>>

InitMain ==
    /\ pc = "start"
    /\ text \in Texts
    /\ month \in {7, 8}
    /\ year \in {2024, 2025}
    /\ lineno = 1
    /\ entries = <<>>
    /\ stdout = <<>>
    /\ week_start = NoDate /\ week_end = NoDate
    /\ mapping = NoMapping
    /\ total_hours = 0
    /\ overlay = FALSE /\ out_file = FALSE /\ remove_failed = FALSE
    /\ footer = -1 /\ summary = -1
    /\ HarnessIdle

\* main, lines 375-376: ocr_image_to_text raises RuntimeError without
\* pytesseract/Pillow, else returns the text
OcrImageToText ==
    /\ pc = "start"
    /\ \E available \in BOOLEAN : pc' = IF available THEN "parse" ELSE "RuntimeError"
    /\ UNCHANGED <<text, month, year, lineno, entries, stdout, week_start, week_end,
                   mapping, total_hours, overlay, out_file, remove_failed, footer,
                   summary, args, result>>

\* main, lines 362-374: --ocr-json bypasses OCR and parsing, so such a run
\* has no OCR text
LoadOcrJson ==
    /\ pc = "start"
    /\ text = <<>>
    /\ entries' \in SeqsUpTo(JsonRows, MaxLines)
    /\ pc' = "parsed"
    /\ UNCHANGED <<text, month, year, lineno, stdout, week_start, week_end,
                   mapping, total_hours, overlay, out_file, remove_failed, footer,
                   summary, args, result>>

\* what an iteration that ended as r does to the state of the call
ParseStep(r) ==
    /\ stdout' = stdout \o r.warnings
    /\ pc' = IF r.outcome = "raise" THEN "ValueError" ELSE "parse"
    /\ lineno' = IF r.outcome = "raise" THEN lineno ELSE lineno + 1
    /\ entries' = IF r.outcome = "entry" THEN Append(entries, r.entry) ELSE entries

\* one iteration of the for loop of parse_handwritten_lines
ParseNextLine ==
    /\ pc = "parse"
    /\ lineno <= Len(text)
    /\ ParseStep(ParseLine(text[lineno], month, year))
    /\ UNCHANGED <<text, month, year, week_start, week_end, mapping, total_hours,
                   overlay, out_file, remove_failed, footer, summary, args, result>>

\* return entries
ParseReturn ==
    /\ pc = "parse"
    /\ lineno > Len(text)
    /\ pc' = "parsed"
    /\ UNCHANGED <<text, month, year, lineno, entries, stdout, week_start, week_end,
                   mapping, total_hours, overlay, out_file, remove_failed, footer,
                   summary, args, result>>

\* main, lines 384-387 with the week bounds wb
MainWeek(wb) ==
    /\ pc' = IF wb.raised THEN "OverflowError" ELSE "render"
    /\ week_start' = IF wb.raised THEN week_start ELSE wb.start
    /\ week_end' = IF wb.raised THEN week_end ELSE wb.end
    /\ mapping' = IF wb.raised THEN mapping ELSE map_entries_to_week(entries, wb.start)
    \* round(sum(e.hours for e in entries), 2)
    /\ total_hours' = IF wb.raised THEN total_hours ELSE SumHours(entries, Len(entries))

\* main, lines 379-387
MainMap ==
    /\ pc = "parsed"
    /\ IF entries = <<>>
       THEN pc' = "SystemExit" /\ UNCHANGED <<week_start, week_end, mapping, total_hours>>
       ELSE MainWeek(week_bounds_from_dates([k \in 1..Len(entries) |-> entries[k].date],
                                            NoDate))
    /\ UNCHANGED <<text, month, year, lineno, entries, stdout, overlay, out_file,
                   remove_failed, footer, summary, args, result>>

\* the steps of render_to_pdf that can raise
RenderSteps == {"template", "save", "read_overlay", "merge", "write", "none"}

\* render_to_pdf: the call fails at one of its steps or completes; the
\* overlay file comes into being with c.save() and is removed only by the
\* os.remove that follows a successful write
render_to_pdf ==
    /\ pc = "render"
    /\ \E fails_at \in RenderSteps, partial \in BOOLEAN, removed \in BOOLEAN :
         /\ pc' = IF fails_at = "none" THEN "rendered" ELSE "render_failed"
         /\ overlay' = CASE fails_at = "template" -> overlay
                         [] fails_at = "save" -> partial
                         [] fails_at \in {"read_overlay", "merge", "write"} -> TRUE
                         [] fails_at = "none" -> ~removed
         /\ out_file' = CASE fails_at = "write" -> partial
                          [] fails_at = "none" -> TRUE
                          [] OTHER -> out_file
         /\ remove_failed' = (fails_at = "none" /\ ~removed)
         /\ footer' = IF fails_at = "none" THEN total_hours ELSE footer
    /\ UNCHANGED <<text, month, year, lineno, entries, stdout, week_start, week_end,
                   mapping, total_hours, summary, args, result>>

\* main, line 401
PrintSummary ==
    /\ pc = "rendered"
    /\ summary' = total_hours
    /\ pc' = "done"
    /\ UNCHANGED <<text, month, year, lineno, entries, stdout, week_start, week_end,
                   mapping, total_hours, overlay, out_file, remove_failed, footer,
                   args, result>>

NextMain ==
    \/ OcrImageToText
    \/ LoadOcrJson
    \/ ParseNextLine
    \/ ParseReturn
    \/ MainMap
    \/ render_to_pdf
    \/ PrintSummary

SpecMain == InitMain /\ [][NextMain]_vars

-----------------------------------------------------------------------------
(* Calls of the single functions on enumerated arguments *)

MainIdle ==
    /\ text = <<>> /\ month = 0 /\ year = 0 /\ lineno = 1
    /\ entries = <<>> /\ stdout = <<>>
    /\ week_start = NoDate /\ week_end = NoDate
    /\ mapping = NoMapping /\ total_hours = 0
    /\ overlay = FALSE /\ out_file = FALSE /\ remove_failed = FALSE
    /\ footer = -1 /\ summary = -1

MainUnchanged ==
    UNCHANGED <<text, month, year, lineno, entries, stdout, week_start, week_end,
                mapping, total_hours, overlay, out_file, remove_failed, footer,
                summary>>

DigitChar(n) == CHOOSE c \in Digits : DigitVal(c) = n

\* str(n) for 0 <= n <= 99
NumText(n) == IF n >= 10 THEN <<DigitChar(n \div 10), DigitChar(n % 10)>> ELSE <<DigitChar(n)>>

(* parse_time on hour, optional minute, AM/PM marker *)

MinuteTexts ==
    {<<>>, <<":", "0", "0">>, <<":", "0", "5">>, <<":", "3", "0">>, <<":", "5", "9">>}

AmMarkers ==
    {<<"a", "m">>, <<"A", "M">>, <<"A", "m">>, <<"a", ".", "m", ".">>,
     <<"A", ".", "M", ".">>, <<"a", ".", "m">>, <<"a">>, <<"A">>}

PmMarkers ==
    {<<"p", "m">>, <<"P", "M">>, <<"p", "M">>, <<"p", ".", "m", ".">>,
     <<"P", ".", "M", ".">>, <<"p", ".", "m">>, <<"p">>, <<"P">>}

TimeText(a) == NumText(a.h) \o a.minute \o a.gap \o a.marker

InitTime ==
    /\ pc = "call_parse_time"
    /\ args \in [h : 1..12, minute : MinuteTexts, gap : {<<>>, <<" ">>},
                 marker : AmMarkers \cup PmMarkers]
    /\ result = None
    /\ MainIdle

CallParseTime ==
    /\ pc = "call_parse_time"
    /\ result' = parse_time(TimeText(args), "")
    /\ pc' = "returned_parse_time"
    /\ UNCHANGED args
    /\ MainUnchanged

NextTime == CallParseTime

SpecTime == InitTime /\ [][NextTime]_vars

(* infer_times on start and end texts *)

InferHours == {0, 3, 9, 12, 17, 23}

InferTexts ==
    {NumText(h) \o mi \o mk :
        h \in InferHours, mi \in {<<>>, <<":", "3", "0">>},
        mk \in {<<>>, <<"a", "m">>, <<"p", "m">>}}
    \cup {<<>>, <<" ">>, <<"9", ":", "7", "5">>}

InitInfer ==
    /\ pc = "call_infer_times"
    /\ args \in [start_txt : InferTexts, end_txt : InferTexts]
    /\ result = [raised |-> FALSE, start |-> None, end |-> None]
    /\ MainIdle

CallInferTimes ==
    /\ pc = "call_infer_times"
    /\ result' = infer_times(args.start_txt, args.end_txt, TRUE)
    /\ pc' = "returned_infer_times"
    /\ UNCHANGED args
    /\ MainUnchanged

NextInfer == CallInferTimes

SpecInfer == InitInfer /\ [][NextInfer]_vars

(* week_bounds_from_dates on lists of dates *)

\* most dates in a list
MaxDates == 2

DatePool ==
    {Date(2025, 7, 28), Date(2025, 7, 29), Date(2025, 7, 30), Date(2025, 7, 31),
     Date(2025, 8, 1), Date(2025, 8, 2), Date(2025, 8, 3), Date(2025, 8, 4),
     Date(2024, 12, 30), Date(2025, 1, 1), Date(2024, 2, 29), Date(2024, 3, 1),
     Date(2000, 2, 29), Date(1900, 3, 1), Date(1, 1, 1), Date(1, 1, 7),
     Date(9999, 12, 26), Date(9999, 12, 27), Date(9999, 12, 31)}

InitWeek ==
    /\ pc = "call_week_bounds"
    /\ args \in {[dates |-> ds, today |-> NoDate] : ds \in SeqsUpTo(DatePool, MaxDates) \ {<<>>}}
                \cup {[dates |-> <<>>, today |-> t] : t \in DatePool}
    /\ result = [raised |-> FALSE, start |-> NoDate, end |-> NoDate]
    /\ MainIdle

CallWeekBounds ==
    /\ pc = "call_week_bounds"
    /\ result' = week_bounds_from_dates(args.dates, args.today)
    /\ pc' = "returned_week_bounds"
    /\ UNCHANGED args
    /\ MainUnchanged

NextWeek == CallWeekBounds

SpecWeek == InitWeek /\ [][NextWeek]_vars

(* map_entries_to_week on lists of entries and a week start *)

\* most entries in a list
MaxEntries == 3

WeekStarts == {Date(2025, 7, 28), Date(2025, 7, 30), Date(2024, 12, 30)}

EntryDates ==
    {Date(2025, 7, 27), Date(2025, 7, 28), Date(2025, 8, 3), Date(2025, 8, 4),
     Date(2025, 8, 5), Date(2024, 12, 29), Date(2025, 1, 5), Date(2025, 1, 6)}

EntryPool ==
    {DayEntry(dte, Time(9, 0), Time(17, 0), h, <<>>) : dte \in EntryDates, h \in {400, 800}}

InitMap ==
    /\ pc = "call_map_entries"
    /\ args \in [entries : SeqsUpTo(EntryPool, MaxEntries), week_start : WeekStarts]
    /\ result = NoMapping
    /\ MainIdle

CallMapEntries ==
    /\ pc = "call_map_entries"
    /\ result' = map_entries_to_week(args.entries, args.week_start)
    /\ pc' = "returned_map_entries"
    /\ UNCHANGED args
    /\ MainUnchanged

NextMap == CallMapEntries

SpecMap == InitMap /\ [][NextMap]_vars

-----------------------------------------------------------------------------
(* Properties *)

\* the lines parse_handwritten_lines has gone through
Processed == 1..(lineno - 1)

EntryOf(raw) == {k \in 1..Len(entries) : entries[k].raw = raw}

WarningsOf(raw) == {k \in 1..Len(stdout) : stdout[k].raw = raw}

\* C1: parsing errors are per-line and non-fatal: whatever the line, the
\* call of parse_handwritten_lines never aborts with an error.
C1_ParsingNeverAborts == pc # "ValueError"

\* the number each catalogue line ends in, in hundredths; -1 when the line
\* does not end in a number
HandwrittenOf(raw) ==
    CASE raw \in {Line01, Line03, Line04} -> 600
      [] raw \in {Line02, Line05} -> 1000
      [] raw \in {Line06, Line11, Line14, Line18, Line19} -> 800
      [] raw \in {Line09, Line17} -> 500
      [] raw \in {Line10, Line12} -> 400
      [] raw = Line13 -> 825
      [] raw = Line15 -> 805
      [] OTHER -> -1

\* C2: every entry's hours is hours_between(start, end) of that entry, or the
\* number its line ends in when that number is within 0.25 of the computed
\* duration; when the number is more than 0.25 away, hours is the computed
\* value and a warning with the date and both values was printed.
C2_HoursReconciled ==
    \A k \in 1..Len(entries) :
        LET e == entries[k]
            computed == hours_between(e.start, e.end)
            hw == HandwrittenOf(e.raw)
            away == Abs(hw - computed)
        IN /\ \/ e.hours = computed
              \/ hw >= 0 /\ e.hours = hw /\ away <= 25
           /\ (hw >= 0 /\ away > 25) =>
                 /\ e.hours = computed
                 /\ \E j \in 1..Len(stdout) :
                        stdout[j] = Warn(e.date.m, e.date.d, e.date.y, hw, computed, e.raw)

\* a text with '8/5 - 9 to 5 - 10' (computed wins, warned) and
\* '8/10 - 9 to 5pm - 8.25' (handwritten kept) has been parsed
C2_Witness ==
    /\ pc = "parsed"
    /\ \E j \in EntryOf(Line02) :
          entries[j].hours = 800 /\ entries[j].date = Date(year, 8, 5)
    /\ \E j \in WarningsOf(Line02) : stdout[j].handwritten = 1000
    /\ \E j \in EntryOf(Line13) : entries[j].hours = 825

\* is the date dte on or before 9999-12-26, the last Sunday of date's range
WeekRepresentable(dte) == ToOrdinal(dte) <= ToOrdinal(Date(9999, 12, 26))

\* what C3 says of a result: start is a Monday on or before every date and
\* at most 6 days before one of them, end is 6 days after start
WeekBoundsOk(dates, res) ==
    /\ ~res.raised
    /\ Weekday(res.start) = 0
    /\ \A k \in 1..Len(dates) : ToOrdinal(res.start) <= ToOrdinal(dates[k])
    /\ \E k \in 1..Len(dates) : ToOrdinal(dates[k]) - ToOrdinal(res.start) <= 6
    /\ ToOrdinal(res.end) - ToOrdinal(res.start) = 6
    /\ ValidDate(res.start.y, res.start.m, res.start.d)
    /\ ValidDate(res.end.y, res.end.m, res.end.d)

\* C3 as stated: for every non-empty list of dates week_bounds_from_dates
\* returns a Monday on or before the earliest date, at most 6 days before
\* it, and the day 6 days after that Monday.
C3_WeekBoundsEveryDate ==
    (pc = "returned_week_bounds" /\ args.dates # <<>>) => WeekBoundsOk(args.dates, result)

\* C3 amended: the same for every non-empty list of dates whose earliest
\* date is on or before 9999-12-26; for a later earliest date the call
\* raises OverflowError.
C3_WeekBounds ==
    (pc = "returned_week_bounds" /\ args.dates # <<>>) =>
        IF \E k \in 1..Len(args.dates) : WeekRepresentable(args.dates[k])
        THEN WeekBoundsOk(args.dates, result)
        ELSE result.raised

\* the week of 2025-07-28 .. 2025-08-03, across the month boundary
C3_Witness ==
    /\ pc = "returned_week_bounds"
    /\ args.dates = <<Date(2025, 8, 3), Date(2025, 7, 28)>>
    /\ result.start = Date(2025, 7, 28)
    /\ result.end = Date(2025, 8, 3)

\* index of the last entry of es dated dte, 0 when there is none
LastDated(es, dte) ==
    IF \A k \in 1..Len(es) : es[k].date # dte THEN 0
    ELSE CHOOSE k \in 1..Len(es) :
             es[k].date = dte /\ \A j \in (k + 1)..Len(es) : es[j].date # dte

\* C4: slot i holds the last entry dated week_start + i days, or is empty
\* when no entry has that date; an entry whose offset is negative or 7 or
\* more is in no slot.
C4_SlotsHoldLastEntryOfDay ==
    pc = "returned_map_entries" =>
        /\ \A i \in 0..6 :
              LET last == LastDated(args.entries, DatePlusDays(args.week_start, i))
              IN result[WEEKDAYS[i + 1]] =
                     IF last = 0 THEN NoneEntry ELSE args.entries[last]
        /\ \A k \in 1..Len(args.entries) :
              LET off == ToOrdinal(args.entries[k].date) - ToOrdinal(args.week_start)
              IN (off < 0 \/ off >= 7) =>
                     \A i \in 1..7 : result[WEEKDAYS[i]] # args.entries[k]

\* two entries 6 days after week_start and one 7 days after it: Sunday
\* holds the later of the two, the third is in no slot
C4_Witness ==
    /\ pc = "returned_map_entries"
    /\ args.week_start = Date(2025, 7, 28)
    /\ Len(args.entries) = 3
    /\ args.entries[1].date = Date(2025, 8, 3) /\ args.entries[1].hours = 400
    /\ args.entries[2].date = Date(2025, 8, 3) /\ args.entries[2].hours = 800
    /\ args.entries[3].date = Date(2025, 8, 4)
    /\ result["Sun"] = args.entries[2]
    /\ \A i \in 1..6 : result[WEEKDAYS[i]] = NoneEntry

IsPm(marker) == marker \in PmMarkers

\* C5: hour 1-12, optional minute and an AM/PM marker in any accepted
\* variant give the 24-hour time: 12 AM -> 00:MM, 12 PM -> 12:MM, other PM
\* hours h -> (h+12):MM, other AM hours h -> h:MM.
C5_TwelveHourTo24 ==
    pc = "returned_parse_time" =>
        LET mi == IF args.minute = <<>> THEN 0
                  ELSE 10 * DigitVal(args.minute[2]) + DigitVal(args.minute[3])
            h24 == IF IsPm(args.marker)
                   THEN (IF args.h = 12 THEN 12 ELSE args.h + 12)
                   ELSE (IF args.h = 12 THEN 0 ELSE args.h)
        IN result = Time(h24, mi)

\* the end of the claim's "parsed end plus 12 hours"
TwelveHoursLater(t) == Time((t.hour + 12) % 24, t.minute)

C7_OverlayReleased ==
    pc \in {"render_failed", "rendered", "done"} => (~overlay \/ remove_failed)

\* the catalogue lines whose (year, month, day) is no calendar date
InvalidDateLines == {Line05, Line06}

\* C8: a line with an impossible date produces no entry and no diagnostic.
C8_InvalidDateSilent ==
    \A k \in Processed :
        text[k] \in InvalidDateLines =>
            EntryOf(text[k]) = {} /\ WarningsOf(text[k]) = {}

\* the catalogue lines that begin with a bare day number, with the day and
\* the time range they state
BareDayLines ==
    {[raw |-> Line03, d |-> 4, start |-> Time(9, 0), end |-> Time(15, 0)],
     [raw |-> Line04, d |-> 4, start |-> Time(9, 0), end |-> Time(15, 0)],
     [raw |-> Line20, d |-> 5, start |-> Time(9, 0), end |-> Time(17, 0)]}

\* C9: a line that begins with a bare day number d gives an entry dated
\* (configured year, configured month, d) with the start and end of its
\* time range.
C9_BareDayUsesConfiguredMonth ==
    \A k \in Processed : \A b \in BareDayLines :
        text[k] = b.raw =>
            \E j \in EntryOf(b.raw) :
                /\ entries[j].date = Date(year, month, b.d)
                /\ entries[j].start = b.start
                /\ entries[j].end = b.end

\* sum of the hours in the seven weekday slots
RECURSIVE SlotHours(_)
SlotHours(n) == IF n = 0 THEN 0 ELSE SlotHours(n - 1) + mapping[WEEKDAYS[n]].hours

\* C10: the total in the footer and in the summary is the sum of the hours
\* of the entries in the seven weekday slots.
C10_TotalIsSumOfSlots ==
    pc = "done" => (footer = SlotHours(7) /\ summary = SlotHours(7))

====
